---------------------------- MODULE Spec2Model ----------------------------
(***************************************************************************)
(* Model of bia_etl.py: a script that reads coordinates from a CSV file,   *)
(* looks up the nearest postcode of each one on a thread pool, stores the  *)
(* rows in SQLite with INSERT OR IGNORE under UNIQUE(lat, lon), and writes *)
(* a coverage report.                                                      *)
(*                                                                         *)
(* One process executes the module once: the import-time statements        *)
(* (remove api_errors.log) followed by run_etl().  The script can be run   *)
(* any number of times; the database file survives from one process to     *)
(* the next, everything else is per process.                               *)
(*                                                                         *)
(* Floats are written as strings ("1.0", "nan"), Python's None as "None".  *)
(***************************************************************************)
EXTENDS Integers, Sequences, FiniteSets, TLC

\* ------------------------------------------------------------------ bounds
\* Longest CSV file (rows) the model reads.
MaxLen == 2

\* Most run_etl calls one process makes (only where a process calls it again).
MaxCalls == 2
\* Most lines api_errors.log may hold when a process calls run_etl again.
MaxKept == 1

\* ThreadPoolExecutor(max_workers=17)
MAX_WORKERS == 17

\* Coordinates a large batch holds beyond the size of the pool.
PoolExtra == 2

None == "None"
NaN == "nan"
\* A cell pandas read as missing (NaN after read_csv).
NA == ""

\* The postcodes the geocoding service may answer with.
Postcodes == {"SW1A 1AA"}

\* ------------------------------------------------------------- CSV content
\* Rows of the DataFrame read_csv returns: the two coordinate cells and the
\* rest of the row (any other columns).  "abc" is a non-numeric cell.
RawRows ==
    { [lat |-> "1",   lon |-> "1", rest |-> "a"],
      [lat |-> "1",   lon |-> "1", rest |-> "b"],
      [lat |-> "1",   lon |-> "2", rest |-> "a"],
      [lat |-> "abc", lon |-> "1", rest |-> "a"],
      [lat |-> NA,    lon |-> "1", rest |-> "a"] }

\* What read_csv can return for postcodesgeo.csv: a frame with or without the
\* lat/lon columns.
RawFrames ==
    { [columns_ok |-> TRUE, rows |-> rs] :
        rs \in UNION { [1..k -> RawRows] : k \in 0..MaxLen } }
      \cup { [columns_ok |-> FALSE, rows |-> <<>>] }

NoFrame == [columns_ok |-> FALSE, rows |-> <<>>]

\* The exceptions extract_data logs and re-raises.
ReadErrors == {"FileNotFoundError", "EmptyDataError", "ParserError"}

\* --------------------------------------------------------- transform_data
RECURSIVE DropDuplicates(_, _)
\* df.drop_duplicates(): keeps the first of the rows equal in every column.
DropDuplicates(rows, seen) ==
    IF rows = <<>> THEN <<>>
    ELSE IF Head(rows) \in seen THEN DropDuplicates(Tail(rows), seen)
    ELSE <<Head(rows)>> \o DropDuplicates(Tail(rows), seen \cup {Head(rows)})

RECURSIVE DropNa(_)
\* df.dropna(subset=['lat', 'lon'])
DropNa(rows) ==
    IF rows = <<>> THEN <<>>
    ELSE IF Head(rows).lat = NA \/ Head(rows).lon = NA THEN DropNa(Tail(rows))
    ELSE <<Head(rows)>> \o DropNa(Tail(rows))

\* pd.to_numeric(cell, errors='coerce')
ToNumeric(cell) ==
    CASE cell = "1" -> "1.0"
      [] cell = "2" -> "2.0"
      [] OTHER -> NaN

\* transform_data on a frame that has both columns; the result keeps the
\* coordinate columns (the only ones read downstream).
TransformData(rows) ==
    LET kept == DropNa(DropDuplicates(rows, {}))
    IN  [i \in 1..Len(kept) |->
            [lat |-> ToNumeric(kept[i].lat), lon |-> ToNumeric(kept[i].lon)]]

\* --------------------------------------------------------- fetch_postcode
\* What the geocoding service can do with one request.
Responses ==
    { [kind |-> "found", postcode |-> p] : p \in Postcodes }
      \cup { [kind |-> k, postcode |-> None] :
               k \in {"no_result", "http_error", "timeout", "transport", "malformed"} }

NoResponse == [kind |-> "none", postcode |-> None]

\* Mutant: the Timeout handler returns None without logging.
FetchLogsError_SilentTimeout(r) == r.kind \in {"no_result", "http_error", "transport"}

\* The branches of fetch_postcode that call log_api_error.
FetchLogsError(r) == r.kind \in {"no_result", "http_error", "timeout", "transport"}

\* The message handed to log_api_error.
LogMessage(r) ==
    CASE r.kind = "no_result"  -> "Respuesta sin resultados validos"
      [] r.kind = "http_error" -> "Error HTTP 500"
      [] r.kind = "timeout"    -> "Timeout al contactar API"
      [] r.kind = "transport"  -> "Error de red"
      [] OTHER -> ""

\* How the call ends: a value, or an exception that escapes (a body without
\* the keys 'status' / 'result' / 'postcode' raises KeyError, which neither
\* except clause catches).
FetchOutcome(r) ==
    CASE r.kind = "found"     -> [raised |-> FALSE, value |-> r.postcode]
      [] r.kind = "malformed" -> [raised |-> TRUE,  value |-> None]
      [] OTHER                -> [raised |-> FALSE, value |-> None]

NoTask == [st |-> "new", resp |-> NoResponse]

\* ------------------------------------------------------------------ state
VARIABLES
    pc,              \* where run_etl stands
    error,           \* category of the exception that left run_etl, or "none"
    df_raw,          \* run_etl: df_raw
    df_clean,        \* run_etl: df_clean (lat, lon)
    coords,          \* enrich_with_api: coords
    postcodes,       \* enrich_with_api: postcodes
    submitted,       \* futures created so far (future_to_index holds 1..submitted)
    task,            \* per future: its state and the response its request got
    collected,       \* futures as_completed has yielded
    count,           \* enrich_with_api: count
    df_enriched,     \* run_etl: df_enriched (lat, lon, nearest_postcode)
    error_log,       \* lines of api_errors.log
    locations,       \* rows of table locations, in rowid order
    load_ret,        \* what load_data_optimized returned: <<>> is None
    report,          \* report_summary.txt written by this run, <<>> if none
    locations0,      \* history: table locations when the run started
    attempts,        \* history: requests.get calls made for each future
    writes,          \* history: assignments made to each slot of postcodes
    calls            \* run_etl calls made by this process

vars == <<pc, error, df_raw, df_clean, coords, postcodes, submitted, task,
          collected, count, df_enriched, error_log, locations,
          load_ret, report, locations0,
                   attempts, writes, calls>>

Init ==
    /\ pc = "off"
    /\ error = "none"
    /\ df_raw = NoFrame
    /\ df_clean = <<>>
    /\ coords = <<>>
    /\ postcodes = <<>>
    /\ submitted = 0
    /\ task = <<>>
    /\ collected = {}
    /\ count = 0
    /\ df_enriched = <<>>
    /\ error_log = <<>>
    /\ locations = <<>>
    /\ load_ret = <<>>
    /\ report = <<>>
    /\ locations0 = <<>>
    /\ attempts = <<>>
    /\ writes = <<>>
    /\ calls = 0

\* ---------------------------------------------------------------- process
\* `python bia_etl.py`: the import-time statements remove api_errors.log,
\* then run_etl() is entered.
StartProcess ==
    /\ pc \in {"off", "done", "aborted"}
    /\ pc' = "extract"
    /\ error' = "none"
    /\ error_log' = <<>>
    /\ df_raw' = NoFrame
    /\ df_clean' = <<>>
    /\ coords' = <<>>
    /\ postcodes' = <<>>
    /\ submitted' = 0
    /\ task' = <<>>
    /\ collected' = {}
    /\ count' = 0
    /\ df_enriched' = <<>>
    /\ load_ret' = <<>>
    /\ report' = <<>>
    /\ locations0' = locations
    /\ attempts' = <<>>
    /\ writes' = <<>>
    /\ calls' = 1
    /\ UNCHANGED locations

\* The process that imported the module calls run_etl() again, after the
\* previous call returned or raised: no statement of run_etl touches
\* api_errors.log, and log_api_error opens it for append.
RunEtlAgain ==
    /\ pc \in {"done", "aborted"}
    /\ calls < MaxCalls
    /\ Len(error_log) <= MaxKept
    /\ calls' = calls + 1
    /\ pc' = "extract"
    /\ error' = "none"
    /\ df_raw' = NoFrame
    /\ df_clean' = <<>>
    /\ coords' = <<>>
    /\ postcodes' = <<>>
    /\ submitted' = 0
    /\ task' = <<>>
    /\ collected' = {}
    /\ count' = 0
    /\ df_enriched' = <<>>
    /\ load_ret' = <<>>
    /\ report' = <<>>
    /\ locations0' = locations
    /\ attempts' = <<>>
    /\ writes' = <<>>
    /\ UNCHANGED <<error_log, locations>>

\* extract_data returns the frame.
ExtractOk ==
    /\ pc = "extract"
    /\ \E f \in RawFrames : df_raw' = f
    /\ pc' = "transform"
    /\ UNCHANGED <<error, df_clean, coords, postcodes, submitted, task,
                   collected, count, df_enriched, error_log, locations, load_ret, report, locations0,
                   attempts, writes, calls>>

\* extract_data logs and re-raises; run_etl has no handler.
ExtractFail ==
    /\ pc = "extract"
    /\ \E e \in ReadErrors : TRUE
    /\ pc' = "aborted"
    /\ error' = "input"
    /\ UNCHANGED <<df_raw, df_clean, coords, postcodes, submitted, task,
                   collected, count, df_enriched, error_log, locations, load_ret, report, locations0,
                   attempts, writes, calls>>

\* transform_data on a frame with both columns.
TransformOk ==
    /\ pc = "transform"
    /\ df_raw.columns_ok
    /\ df_clean' = TransformData(df_raw.rows)
    /\ df_raw' = NoFrame
    /\ pc' = "enrich"
    /\ UNCHANGED <<error, coords, postcodes, submitted, task, collected,
                   count, df_enriched, error_log, locations,
                   load_ret, report, locations0,
                   attempts, writes, calls>>

\* A frame without lat or lon: the loop only logs, dropna raises KeyError.
TransformFail ==
    /\ pc = "transform"
    /\ ~df_raw.columns_ok
    /\ pc' = "aborted"
    /\ error' = "input"
    /\ UNCHANGED <<df_raw, df_clean, coords, postcodes, submitted, task,
                   collected, count, df_enriched, error_log, locations, load_ret, report, locations0,
                   attempts, writes, calls>>

\* -------------------------------------------------------- enrich_with_api
\* coords = list(zip(...)); postcodes = [None] * len(df); the pool is created.
EnrichStart ==
    /\ pc = "enrich"
    /\ coords' = df_clean
    /\ postcodes' = [i \in 1..Len(df_clean) |-> None]
    /\ task' = [i \in 1..Len(df_clean) |-> NoTask]
    /\ pc' = "pool"
    /\ attempts' = [i \in 1..Len(df_clean) |-> 0]
    /\ writes' = [i \in 1..Len(df_clean) |-> <<>>]
    /\ UNCHANGED <<error, df_raw, df_clean, submitted, collected, count,
                   df_enriched, error_log, locations, load_ret,
                   report, locations0,
                   calls>>

\* executor.submit(fetch_postcode, lat, lon): i, in the order of coords.
Submit ==
    /\ pc = "pool"
    /\ submitted < Len(coords)
    /\ submitted' = submitted + 1
    /\ task' = [task EXCEPT ![submitted + 1].st = "queued"]
    /\ UNCHANGED <<pc, error, df_raw, df_clean, coords, postcodes,
                   collected, count, df_enriched, error_log, locations, load_ret, report, locations0,
                   attempts, writes, calls>>

\* Futures whose call to fetch_postcode has begun and not ended.
InFlight == { i \in 1..Len(task) : task[i].st \in {"running", "logging"} }

Queued == { i \in 1..Len(task) : task[i].st = "queued" }

\* Mutant: one thread per submitted future, whatever the number running.
StartTask_NoLimit(i) ==
    /\ pc = "pool"
    /\ i \in Queued
    /\ \A j \in Queued : i <= j
    /\ task' = [task EXCEPT ![i].st = "running"]
    /\ attempts' = [attempts EXCEPT ![i] = @ + 1]
    /\ UNCHANGED <<pc, error, df_raw, df_clean, coords, postcodes,
                   submitted, collected, count, df_enriched, error_log,
                   locations, load_ret, report, locations0,
                   writes, calls>>

\* A free worker thread takes the oldest item of the executor's work queue
\* and calls fetch_postcode: requests.get is sent.
StartTask(i) ==
    /\ pc = "pool"
    /\ i \in Queued
    /\ \A j \in Queued : i <= j
    /\ Cardinality(InFlight) < MAX_WORKERS
    /\ task' = [task EXCEPT ![i].st = "running"]
    /\ attempts' = [attempts EXCEPT ![i] = @ + 1]
    /\ UNCHANGED <<pc, error, df_raw, df_clean, coords, postcodes,
                   submitted, collected, count, df_enriched, error_log,
                   locations, load_ret, report, locations0,
                   writes, calls>>

\* Mutant: a request that failed is sent once more.
Respond_RetryOnce(i, r) ==
    /\ pc = "pool"
    /\ i \in 1..Len(task)
    /\ task[i].st = "running"
    /\ task' = [task EXCEPT ![i] =
                  IF r.kind # "found" /\ attempts[i] < 2
                  THEN [st |-> "queued", resp |-> NoResponse]
                  ELSE [st |-> IF FetchLogsError(r) THEN "logging" ELSE "done",
                        resp |-> r]]
    /\ UNCHANGED <<pc, error, df_raw, df_clean, coords, postcodes,
                   submitted, collected, count, df_enriched, error_log,
                   locations, load_ret, report, locations0,
                   attempts, writes, calls>>

\* requests.get ends with response r; fetch_postcode returns, raises, or
\* enters log_api_error (the file is opened for append).
Respond(i, r) ==
    /\ pc = "pool"
    /\ i \in 1..Len(task)
    /\ task[i].st = "running"
    /\ task' = [task EXCEPT ![i] =
                  [st |-> IF FetchLogsError(r) THEN "logging" ELSE "done",
                   resp |-> r]]
    /\ UNCHANGED <<pc, error, df_raw, df_clean, coords, postcodes,
                   submitted, collected, count, df_enriched, error_log,
                   locations, load_ret, report, locations0,
                   attempts, writes, calls>>

\* The line log_api_error writes; `by` names the writing task and is not
\* part of the text.
LogLine(i) ==
    [lat |-> coords[i].lat, lon |-> coords[i].lon,
     message |-> LogMessage(task[i].resp), by |-> i]

\* Mutant: log_api_error takes a lock that its first caller never releases.
LogWrite_LockKept(i) ==
    /\ pc = "pool"
    /\ i \in 1..Len(task)
    /\ task[i].st = "logging"
    /\ error_log = <<>>
    /\ error_log' = Append(error_log, LogLine(i))
    /\ task' = [task EXCEPT ![i].st = "done"]
    /\ UNCHANGED <<pc, error, df_raw, df_clean, coords, postcodes,
                   submitted, collected, count, df_enriched, locations, load_ret, report, locations0,
                   attempts, writes, calls>>

\* log_api_error writes its line and closes the file; fetch_postcode
\* returns None.
LogWrite(i) ==
    /\ pc = "pool"
    /\ i \in 1..Len(task)
    /\ task[i].st = "logging"
    /\ error_log' = Append(error_log, LogLine(i))
    /\ task' = [task EXCEPT ![i].st = "done"]
    /\ UNCHANGED <<pc, error, df_raw, df_clean, coords, postcodes,
                   submitted, collected, count, df_enriched, locations, load_ret, report, locations0,
                   attempts, writes, calls>>

\* Futures as_completed can yield next.
Completed == { i \in 1..Len(task) : task[i].st = "done" /\ i \notin collected }

\* Mutant: the result is stored in completion order, not at the future's index.
Collect_CompletionOrder(i) ==
    /\ pc = "pool"
    /\ submitted = Len(coords)
    /\ i \in Completed
    /\ count' = count + 1
    /\ collected' = collected \cup {i}
    /\ postcodes' = IF FetchOutcome(task[i].resp).raised THEN postcodes
                    ELSE [postcodes EXCEPT ![count + 1] = FetchOutcome(task[i].resp).value]
    /\ writes' = IF FetchOutcome(task[i].resp).raised THEN writes
                 ELSE [writes EXCEPT ![count + 1] =
                         Append(@, [by |-> i, value |-> FetchOutcome(task[i].resp).value])]
    /\ UNCHANGED <<pc, error, df_raw, df_clean, coords, submitted, task,
                   df_enriched, error_log, locations, load_ret,
                   report, locations0,
                   attempts, calls>>

\* Mutant: no try/except around future.result(): an exception of the worker
\* leaves enrich_with_api and run_etl.
Collect_NoHandler(i) ==
    /\ pc = "pool"
    /\ submitted = Len(coords)
    /\ i \in Completed
    /\ count' = count + 1
    /\ collected' = collected \cup {i}
    /\ IF FetchOutcome(task[i].resp).raised
       THEN /\ pc' = "aborted"
            /\ error' = "lookup"
            /\ postcodes' = postcodes
       ELSE /\ postcodes' = [postcodes EXCEPT ![i] = FetchOutcome(task[i].resp).value]
            /\ UNCHANGED <<pc, error>>
    /\ writes' = IF FetchOutcome(task[i].resp).raised THEN writes
                 ELSE [writes EXCEPT ![i] =
                         Append(@, [by |-> i, value |-> FetchOutcome(task[i].resp).value])]
    /\ UNCHANGED <<df_raw, df_clean, coords, submitted, task,
                   df_enriched, error_log, locations, load_ret,
                   report, locations0,
                   attempts, calls>>

\* One turn of the as_completed loop, entered once every future is
\* submitted: index = future_to_index[future]; the result is stored at
\* index, an exception is logged and the slot keeps None.
Collect(i) ==
    /\ pc = "pool"
    /\ submitted = Len(coords)
    /\ i \in Completed
    /\ count' = count + 1
    /\ collected' = collected \cup {i}
    /\ postcodes' = IF FetchOutcome(task[i].resp).raised THEN postcodes
                    ELSE [postcodes EXCEPT ![i] = FetchOutcome(task[i].resp).value]
    /\ writes' = IF FetchOutcome(task[i].resp).raised THEN writes
                 ELSE [writes EXCEPT ![i] =
                         Append(@, [by |-> i, value |-> FetchOutcome(task[i].resp).value])]
    /\ UNCHANGED <<pc, error, df_raw, df_clean, coords, submitted, task,
                   df_enriched, error_log, locations, load_ret,
                   report, locations0,
                   attempts, calls>>

\* Mutant: the function returns once every future is submitted, without
\* waiting for the futures.
EnrichReturn_Early ==
    /\ pc = "pool"
    /\ submitted = Len(coords)
    /\ df_enriched' = [i \in 1..Len(df_clean) |->
                         [lat |-> df_clean[i].lat, lon |-> df_clean[i].lon,
                          nearest_postcode |-> postcodes[i]]]
    /\ pc' = "load"
    /\ UNCHANGED <<error, df_raw, df_clean, coords, postcodes, submitted,
                   task, collected, count, error_log, locations, load_ret, report, locations0,
                   attempts, writes, calls>>

\* The loop and the with block end; df['nearest_postcode'] = postcodes.
EnrichReturn ==
    /\ pc = "pool"
    /\ submitted = Len(coords)
    /\ collected = 1..Len(coords)
    /\ df_enriched' = [i \in 1..Len(df_clean) |->
                         [lat |-> df_clean[i].lat, lon |-> df_clean[i].lon,
                          nearest_postcode |-> postcodes[i]]]
    /\ pc' = "load"
    /\ UNCHANGED <<error, df_raw, df_clean, coords, postcodes, submitted,
                   task, collected, count, error_log, locations, load_ret, report, locations0,
                   attempts, writes, calls>>

\* ---------------------------------------------------- load_data_optimized
\* Mutant: the constraint is UNIQUE(lat, lon, nearest_postcode).
Conflicts_WithPostcode(table, row) ==
    \E k \in 1..Len(table) :
        /\ table[k].lat = row.lat
        /\ table[k].lon = row.lon
        /\ table[k].nearest_postcode = row.nearest_postcode

\* (lat, lon) is already a row of the table.
Conflicts(table, row) ==
    \E k \in 1..Len(table) : table[k].lat = row.lat /\ table[k].lon = row.lon

\* Mutant: the table has no UNIQUE(lat, lon).
InsertOrIgnore_NoUnique(table, row) ==
    IF row.lat = NaN \/ row.lon = NaN THEN table ELSE Append(table, row)

\* Mutant: INSERT OR REPLACE.
InsertOrIgnore_Replace(table, row) ==
    IF row.lat = NaN \/ row.lon = NaN THEN table
    ELSE IF Conflicts(table, row)
         THEN [k \in 1..Len(table) |->
                 IF table[k].lat = row.lat /\ table[k].lon = row.lon
                 THEN row ELSE table[k]]
         ELSE Append(table, row)

\* Mutant: on a conflict a row without postcode is replaced by one with a
\* postcode.
InsertOrIgnore_Upgrade(table, row) ==
    IF row.lat = NaN \/ row.lon = NaN THEN table
    ELSE IF Conflicts(table, row)
         THEN [k \in 1..Len(table) |->
                 IF /\ table[k].lat = row.lat
                    /\ table[k].lon = row.lon
                    /\ table[k].nearest_postcode = None
                 THEN row ELSE table[k]]
         ELSE Append(table, row)

\* INSERT OR IGNORE of one row: sqlite3 binds a NaN float as NULL, which
\* NOT NULL rejects; a row violating NOT NULL or UNIQUE(lat, lon) is skipped.
\* The table is kept in rowid order; the id column is not modelled.
InsertOrIgnore(table, row) ==
    IF row.lat = NaN \/ row.lon = NaN THEN table
    ELSE IF Conflicts(table, row) THEN table
    ELSE Append(table, row)

RECURSIVE ExecuteMany(_, _)
\* cursor.executemany(insert_query, rows): the rows in order.
ExecuteMany(table, rows) ==
    IF rows = <<>> THEN table
    ELSE ExecuteMany(InsertOrIgnore(table, Head(rows)), Tail(rows))

\* Mutant: the function returns the number of rows it inserted.
LoadReturn_Count(before, after) == <<Len(after) - Len(before)>>

\* load_data_optimized ends without a return statement: None.
LoadReturn(before, after) == <<>>

\* load_data_optimized: the batch is inserted and committed.
LoadOk ==
    /\ pc = "load"
    /\ locations' = ExecuteMany(locations, df_enriched)
    /\ load_ret' = LoadReturn(locations, locations')
    /\ pc' = "report"
    /\ UNCHANGED <<error, df_raw, df_clean, coords, postcodes, submitted,
                   task, collected, count, df_enriched, error_log, report,
                   locations0,
                   attempts, writes, calls>>

\* Mutant: the storage error is swallowed and the run goes on.
LoadFail_Swallowed ==
    /\ pc = "load"
    /\ pc' = "report"
    /\ error' = "storage"
    /\ UNCHANGED <<df_raw, df_clean, coords, postcodes, submitted, task,
                   collected, count, df_enriched, error_log, locations, load_ret, report, locations0,
                   attempts, writes, calls>>

\* sqlite3 raises (connect, execute, executemany or commit): nothing is
\* committed, the exception leaves run_etl.
LoadFail ==
    /\ pc = "load"
    /\ pc' = "aborted"
    /\ error' = "storage"
    /\ UNCHANGED <<df_raw, df_clean, coords, postcodes, submitted, task,
                   collected, count, df_enriched, error_log, locations, load_ret, report, locations0,
                   attempts, writes, calls>>

\* --------------------------------------------------------- generate_report
WithPostcode(table) ==
    Cardinality({ k \in 1..Len(table) : table[k].nearest_postcode # None })

\* round((with_postcode / total) * 100, 2) in hundredths of a percent, <<>>
\* for nan: with_postcode is a numpy integer, so 0 / 0 gives nan.
CoveragePct(with_postcode, total) ==
    IF total = 0 THEN <<>>
    ELSE LET q == (with_postcode * 10000) \div total
             r == (with_postcode * 10000) % total
         IN  IF 2 * r > total \/ (2 * r = total /\ q % 2 = 1)
             THEN <<q + 1>> ELSE <<q>>

\* Mutant: run_etl calls generate_report without waiting for the load.
GenerateReport_BeforeLoad ==
    /\ pc \in {"load", "report"}
    /\ report' = << [total |-> Len(locations),
                     with_postcode |-> WithPostcode(locations),
                     without_postcode |-> Len(locations) - WithPostcode(locations),
                     coverage_pct |-> CoveragePct(WithPostcode(locations), Len(locations))] >>
    /\ pc' = "done"
    /\ UNCHANGED <<error, df_raw, df_clean, coords, postcodes, submitted,
                   task, collected, count, df_enriched, error_log, locations, load_ret, locations0,
                   attempts, writes, calls>>

\* generate_report reads the table and writes report_summary.txt.
GenerateReport ==
    /\ pc = "report"
    /\ report' = << [total |-> Len(locations),
                     with_postcode |-> WithPostcode(locations),
                     without_postcode |-> Len(locations) - WithPostcode(locations),
                     coverage_pct |-> CoveragePct(WithPostcode(locations), Len(locations))] >>
    /\ pc' = "done"
    /\ UNCHANGED <<error, df_raw, df_clean, coords, postcodes, submitted,
                   task, collected, count, df_enriched, error_log, locations, load_ret, locations0,
                   attempts, writes, calls>>

\* generate_report cannot open or read the database.
ReportFail ==
    /\ pc = "report"
    /\ pc' = "aborted"
    /\ error' = "storage"
    /\ UNCHANGED <<df_raw, df_clean, coords, postcodes, submitted, task,
                   collected, count, df_enriched, error_log, locations, load_ret, report, locations0,
                   attempts, writes, calls>>

Next ==
    \/ StartProcess
    \/ ExtractOk
    \/ ExtractFail
    \/ TransformOk
    \/ TransformFail
    \/ EnrichStart
    \/ Submit
    \/ \E i \in 1..MaxLen + 1 : StartTask(i)
    \/ \E i \in 1..MaxLen + 1, r \in Responses : Respond(i, r)
    \/ \E i \in 1..MaxLen + 1 : LogWrite(i)
    \/ \E i \in 1..MaxLen + 1 : Collect(i)
    \/ EnrichReturn
    \/ LoadOk
    \/ LoadFail
    \/ GenerateReport
    \/ ReportFail

\* The script, run any number of times.
Spec == Init /\ [][Next]_vars

\* The module used as a library: a process may call run_etl more than once.
NextReuse == Next \/ RunEtlAgain

SpecReuse == Init /\ [][NextReuse]_vars

\* The script under fair scheduling: the main thread goes on submitting,
\* collecting and returning, every worker thread that can take a future or
\* write its log line does so, and every request sent is answered or ends
\* with its timeout (requests.get(..., timeout=5)).
FairSpec ==
    /\ Spec
    /\ WF_vars(Submit)
    /\ \A i \in 1..MaxLen + 1 :
          /\ WF_vars(StartTask(i))
          /\ WF_vars(\E r \in Responses : Respond(i, r))
          /\ WF_vars(LogWrite(i))
          /\ WF_vars(Collect(i))
    /\ WF_vars(EnrichReturn)

\* ------------------------------------------------------------ large batch
\* A cleaned frame longer than the pool: MAX_WORKERS + PoolExtra rows of one
\* coordinate (CSV rows that differ in another column), each its own future.
PoolFrame == [i \in 1..MAX_WORKERS + PoolExtra |-> [lat |-> "1.0", lon |-> "1.0"]]

\* The requests that are still unanswered while the rest of the batch is
\* served: all but one of the workers stay occupied.
SlowRequests == 1..MAX_WORKERS - 1

\* enrich_with_api(PoolFrame) right after the pool is created.
InitPool ==
    /\ pc = "pool"
    /\ error = "none"
    /\ df_raw = NoFrame
    /\ df_clean = PoolFrame
    /\ coords = PoolFrame
    /\ postcodes = [i \in 1..Len(PoolFrame) |-> None]
    /\ submitted = 0
    /\ task = [i \in 1..Len(PoolFrame) |-> NoTask]
    /\ collected = {}
    /\ count = 0
    /\ df_enriched = <<>>
    /\ error_log = <<>>
    /\ locations = <<>>
    /\ load_ret = <<>>
    /\ report = <<>>
    /\ locations0 = <<>>
    /\ attempts = [i \in 1..Len(PoolFrame) |-> 0]
    /\ writes = [i \in 1..Len(PoolFrame) |-> <<>>]
    /\ calls = 1

\* The submit loop, the worker threads and the as_completed loop.
NextPool ==
    \/ Submit
    \/ \E i \in 1..Len(PoolFrame) : StartTask(i)
    \/ \E i \in (1..Len(PoolFrame)) \ SlowRequests, r \in Responses : Respond(i, r)
    \/ \E i \in 1..Len(PoolFrame) : LogWrite(i)
    \/ \E i \in 1..Len(PoolFrame) : Collect(i)

SpecPool == InitPool /\ [][NextPool]_vars
\* ------------------------------------------------------------ vocabulary
\* enrich_with_api has returned to run_etl.
EnrichReturned == pc \in {"load", "report", "done"}

\* load_data_optimized has returned to run_etl.
LoadReturned == pc \in {"report", "done"}

\* What the lookup of position i leaves for the results buffer: its return
\* value, None when it raised.
LookupValue(i) ==
    IF FetchOutcome(task[i].resp).raised THEN None
    ELSE FetchOutcome(task[i].resp).value

\* The ways a lookup fails.
FailureKinds == {"no_result", "http_error", "timeout", "transport", "malformed"}

\* Lines of the error log written for position i.
LinesOf(i) == { k \in 1..Len(error_log) : error_log[k].by = i }

SameCoordinate(a, b) == a.lat = b.lat /\ a.lon = b.lon

\* Every lookup of the run was executed, collected and recorded.
AllRecorded ==
    /\ Len(df_enriched) = Len(df_clean)
    /\ \A i \in 1..Len(df_clean) :
          /\ task[i].st = "done"
          /\ i \in collected
          /\ df_enriched[i].nearest_postcode = LookupValue(i)

\* Every lookup of a run with non-empty input timed out.
AllTimedOut ==
    /\ Len(df_clean) > 0
    /\ Len(task) = Len(df_clean)
    /\ \A i \in 1..Len(task) : task[i].resp.kind = "timeout"

\* ---------------------------------------------------------------- claims
\* C1: once enrich_with_api has returned, whatever the order in which the
\* lookups completed, its output has one entry per input coordinate and the
\* entry at position i carries the coordinate at position i and the outcome
\* of the lookup submitted for it.
C1_OneEntryPerCoordinateInOrder ==
    EnrichReturned =>
        /\ Len(df_enriched) = Len(df_clean)
        /\ \A i \in 1..Len(df_clean) :
              /\ df_enriched[i].lat = df_clean[i].lat
              /\ df_enriched[i].lon = df_clean[i].lon
              /\ df_enriched[i].nearest_postcode = LookupValue(i)

\* Two lookups with different outcomes, the failed one at the second position.
C1_Witness ==
    /\ pc = "load"
    /\ Len(df_enriched) = 2
    /\ task[1].resp.kind = "found"
    /\ df_enriched[1].nearest_postcode \in Postcodes
    /\ task[2].resp.kind = "timeout"
    /\ df_enriched[2].nearest_postcode = None

\* C2 (as claimed): every coordinate whose lookup failed (non-2xx response,
\* malformed or empty body, timeout, transport failure) has a result entry
\* with postcode None and exactly one line in the error log.
C2_Original ==
    EnrichReturned =>
        \A i \in 1..Len(df_clean) :
            task[i].resp.kind \in FailureKinds =>
                /\ i <= Len(df_enriched)
                /\ df_enriched[i].nearest_postcode = None
                /\ Cardinality(LinesOf(i)) = 1

\* C3: in every reachable state of the table no two rows have the same
\* (lat, lon).
C3_UniqueCoordinates ==
    \A j, k \in 1..Len(locations) :
        j # k => ~SameCoordinate(locations[j], locations[k])

\* A load has run on a batch that repeats a coordinate which was already
\* stored.
C3_Witness ==
    /\ LoadReturned
    /\ \E i, j \in 1..Len(df_enriched) :
          /\ i < j
          /\ SameCoordinate(df_enriched[i], df_enriched[j])
          /\ \E k \in 1..Len(locations0) : SameCoordinate(locations0[k], df_enriched[i])

\* C4: loading is idempotent: after load_data_optimized has loaded a batch,
\* loading the same batch again leaves the table with the same rows.
C4_LoadIdempotent ==
    LoadReturned => ExecuteMany(locations, df_enriched) = locations

\* The first load of the batch inserted rows and skipped one.
C4_Witness ==
    /\ LoadReturned
    /\ Len(locations) > Len(locations0)
    /\ Len(locations) < Len(locations0) + Len(df_enriched)

\* C5: a load never changes or removes a persisted row: every row the table
\* held when the run started is in the table afterwards, with the same
\* postcode, whatever the batch carries for its coordinate.
C5_PersistedRowsKept ==
    \A k \in 1..Len(locations0) :
        /\ k <= Len(locations)
        /\ locations[k] = locations0[k]

\* A coordinate stored with postcode None was loaded again with a postcode.
C5_Witness ==
    /\ LoadReturned
    /\ \E k \in 1..Len(locations0), i \in 1..Len(df_enriched) :
          /\ SameCoordinate(locations0[k], df_enriched[i])
          /\ locations0[k].nearest_postcode = None
          /\ df_enriched[i].nearest_postcode \in Postcodes

\* C6 (as claimed): load_data_optimized returns the number of rows it
\* inserted, the table's size after the call minus its size before.
C6_Original ==
    LoadReturned => load_ret = <<Len(locations) - Len(locations0)>>

\* The coordinates of the batch that can be stored and were not.
NewCoordinates ==
    { [lat |-> df_enriched[i].lat, lon |-> df_enriched[i].lon] :
        i \in { j \in 1..Len(df_enriched) :
                  /\ df_enriched[j].lat # NaN
                  /\ df_enriched[j].lon # NaN
                  /\ ~Conflicts(locations0, df_enriched[j]) } }

\* C6 (amended): load_data_optimized returns None; the table grows by the
\* number of distinct storable coordinates of the batch that were not stored.
C6_ReturnsNone ==
    LoadReturned =>
        /\ load_ret = <<>>
        /\ Len(locations) - Len(locations0) = Cardinality(NewCoordinates)

\* A load that inserted a row.
C6_Witness ==
    /\ LoadReturned
    /\ Len(locations) > Len(locations0)
    /\ load_ret = <<>>

\* C7: lookup failures are isolated: the run is never stopped inside the
\* enrichment (an aborted run either submitted no lookup or had every lookup
\* executed and recorded), and when enrich_with_api has returned every
\* lookup was executed and its outcome recorded, whichever lookups failed.
C7_FailuresIsolated ==
    /\ pc = "aborted" => error \in {"input", "storage"}
    /\ pc = "aborted" => (submitted = 0 \/ AllRecorded)
    /\ EnrichReturned => AllRecorded

\* A run that produced its report although one lookup raised and another
\* timed out, next to one that succeeded or failed otherwise.
C7_Witness ==
    /\ pc = "done"
    /\ report # <<>>
    /\ \E i, j \in 1..Len(task) :
          /\ task[i].resp.kind = "malformed"
          /\ task[j].resp.kind # "malformed"
          /\ i < j

\* C8: a run that hits an input error is aborted before any lookup is
\* submitted, and a run that hits an input or a storage error ends aborted
\* without a report.
C8_FatalErrorsEndTheRun ==
    /\ error = "input" => (pc = "aborted" /\ submitted = 0 /\ task = <<>> /\ report = <<>>)
    /\ error = "storage" => (pc = "aborted" /\ report = <<>>)

\* A run aborted by a storage error after its lookups were done.
C8_Witness ==
    /\ pc = "aborted"
    /\ error = "storage"
    /\ Len(df_enriched) > 0
    /\ report = <<>>

\* Positions whose lookup failed.
FailedLookups == { i \in 1..Len(task) : task[i].resp.kind \in FailureKinds }

\* Every coordinate handed to the enrichment is a pair of finite numbers.
InputFinite ==
    \A i \in 1..Len(df_clean) : df_clean[i].lat # NaN /\ df_clean[i].lon # NaN

\* The input of the run repeats a coordinate.
InputRepeats ==
    \E i, j \in 1..Len(df_clean) : i < j /\ SameCoordinate(df_clean[i], df_clean[j])

\* C9 (as claimed): after a run on an empty table whose input (finite
\* coordinates) repeats a coordinate, the table has exactly one row per
\* distinct input (lat, lon), with postcode None where the lookups of the
\* coordinate returned absence, and the error log has one line per failed
\* lookup.
C9_Original ==
    (LoadReturned /\ locations0 = <<>> /\ InputFinite /\ InputRepeats) =>
        /\ \A i \in 1..Len(df_clean) :
              /\ Cardinality({ k \in 1..Len(locations) :
                                 SameCoordinate(locations[k], df_clean[i]) }) = 1
              /\ (\A j \in 1..Len(df_clean) :
                      SameCoordinate(df_clean[j], df_clean[i]) => LookupValue(j) = None)
                   => \E k \in 1..Len(locations) :
                         /\ SameCoordinate(locations[k], df_clean[i])
                         /\ locations[k].nearest_postcode = None
        /\ Len(locations) =
              Cardinality({ [lat |-> df_clean[i].lat, lon |-> df_clean[i].lon] :
                              i \in 1..Len(df_clean) })
        /\ Len(error_log) = Cardinality(FailedLookups)

\* C10 (as claimed): after a run with non-empty input (finite coordinates)
\* whose lookups all timed out, every persisted row has postcode None, the
\* error log has one line per input coordinate, and the report shows 0%
\* coverage.
C10_Original ==
    (pc = "done" /\ AllTimedOut /\ InputFinite) =>
        /\ \A k \in 1..Len(locations) : locations[k].nearest_postcode = None
        /\ Len(error_log) = Len(df_clean)
        /\ report # <<>>
        /\ report[1].coverage_pct = <<0>>

\* C10 (amended): when every lookup of a run with non-empty input timed
\* out, the error log has exactly one line per input coordinate, every row
\* the run added to the table has postcode None, the run is not stopped by
\* the lookups (only a storage error keeps it from its report), and the
\* report shows 0% coverage when the table has a row and held no postcode
\* before the run, and nan when the table has no row.
C10_AllTimeouts ==
    /\ (EnrichReturned /\ AllTimedOut) =>
          /\ Len(error_log) = Len(df_clean)
          /\ \A i \in 1..Len(df_clean) :
                \E k \in 1..Len(error_log) :
                    /\ LinesOf(i) = {k}
                    /\ error_log[k].lat = df_clean[i].lat
                    /\ error_log[k].lon = df_clean[i].lon
                    /\ error_log[k].message = "Timeout al contactar API"
          /\ \A i \in 1..Len(df_clean) : df_enriched[i].nearest_postcode = None
    /\ (LoadReturned /\ AllTimedOut) =>
          \A k \in 1..Len(locations) :
              k > Len(locations0) => locations[k].nearest_postcode = None
    /\ (pc = "aborted" /\ AllTimedOut) => (error = "storage" /\ AllRecorded)
    /\ (pc = "done" /\ AllTimedOut) =>
          /\ report # <<>>
          /\ report[1].total = Len(locations)
          /\ (Len(locations) > 0 /\ WithPostcode(locations0) = 0)
                => report[1].coverage_pct = <<0>>
          /\ Len(locations) = 0 => report[1].coverage_pct = <<>>

\* A finished run on an empty table: two coordinates, two timeouts, a
\* report with 0% coverage.
C10_Witness ==
    /\ pc = "done"
    /\ AllTimedOut
    /\ Len(df_clean) = 2
    /\ locations0 = <<>>
    /\ Len(locations) > 0
    /\ report[1].coverage_pct = <<0>>

\* C11 (as claimed): whenever a run (a call of run_etl) begins, the error log
\* has no entries, so the log never carries lines of an earlier run.
C11_Original ==
    pc = "extract" => error_log = <<>>

\* Futures inside log_api_error: the file is open and the line not yet
\* written and closed.
InLogApiError == { i \in 1..Len(task) : task[i].st = "logging" }

\* C12 (as claimed): in every interleaving at most one task at a time is
\* inside the open-append-write-close sequence of log_api_error.
C12_Original ==
    Cardinality(InLogApiError) <= 1

\* C13: during enrichment at most MAX_WORKERS lookups are in flight, and a
\* future waiting in the executor's queue has made no request yet.
C13_AtMostSeventeenInFlight ==
    /\ Cardinality(InFlight) <= MAX_WORKERS
    /\ \A i \in Queued : attempts[i] = 0

\* Seventeen lookups are in flight, one of them a future beyond the pool size
\* that had to wait, and another future still waits.
C13_Witness ==
    /\ Len(coords) > MAX_WORKERS
    /\ Cardinality(InFlight) = MAX_WORKERS
    /\ \E i \in InFlight : i > MAX_WORKERS
    /\ Queued # {}

\* C14: once enrich_with_api has returned, every coordinate's future was
\* submitted, has completed and was yielded by as_completed, its outcome is
\* in the returned frame, and no future is queued or in flight.
C14_BatchBarrier ==
    EnrichReturned =>
        /\ submitted = Len(coords)
        /\ Len(task) = Len(coords)
        /\ Queued = {}
        /\ InFlight = {}
        /\ count = Len(coords)
        /\ \A i \in 1..Len(task) :
              /\ task[i].st = "done"
              /\ i \in collected
              /\ df_enriched[i].nearest_postcode = LookupValue(i)

\* enrich_with_api has just returned a batch of two, one lookup answered
\* with a postcode and one failed.
C14_Witness ==
    /\ pc = "load"
    /\ Len(task) = 2
    /\ \E i, j \in 1..Len(task) :
          /\ task[i].resp.kind = "found"
          /\ task[j].resp.kind \in FailureKinds

\* C15 (as claimed): no slot of postcodes is assigned twice or by a future
\* that does not own it, and when enrich_with_api has returned every slot
\* was assigned exactly once, with its owner's outcome.
C15_Original ==
    /\ \A i \in 1..Len(writes) :
          /\ Len(writes[i]) <= 1
          /\ \A k \in 1..Len(writes[i]) : writes[i][k].by = i
    /\ EnrichReturned =>
          \A i \in 1..Len(writes) :
              /\ Len(writes[i]) = 1
              /\ writes[i][1].value = LookupValue(i)

\* C16: one future per position of the cleaned frame and at most one request
\* per future at any time; once enrich_with_api has returned every position
\* was submitted and made exactly one request, whether it failed or not and
\* whether its coordinate is repeated or not, and an empty frame gave no
\* future and an empty output.
C16_OneAttemptPerPosition ==
    /\ \A i \in 1..Len(attempts) : attempts[i] <= 1
    /\ pc = "pool" => Len(task) = Len(df_clean) /\ submitted <= Len(df_clean)
    /\ EnrichReturned =>
          /\ Len(task) = Len(df_clean)
          /\ Len(attempts) = Len(df_clean)
          /\ submitted = Len(df_clean)
          /\ \A i \in 1..Len(df_clean) : attempts[i] = 1
          /\ Len(df_enriched) = Len(df_clean)
          /\ df_clean = <<>> => task = <<>> /\ df_enriched = <<>>

\* One coordinate at both positions of the input: two lookups were made,
\* the first of them failed and was not repeated.
C16_Witness ==
    /\ EnrichReturned
    /\ Len(df_clean) = 2
    /\ SameCoordinate(df_clean[1], df_clean[2])
    /\ task[1].resp.kind \in FailureKinds
    /\ task[2].resp.kind = "found"
    /\ attempts = <<1, 1>>

\* An empty cleaned frame went through enrichment.
C16_EmptyInput ==
    /\ EnrichReturned
    /\ df_clean = <<>>

\* Position of a phase in run_etl.
PhaseRank(p) ==
    CASE p = "off"       -> 0
      [] p = "extract"   -> 1
      [] p = "transform" -> 2
      [] p = "enrich"    -> 3
      [] p = "pool"      -> 4
      [] p = "load"      -> 5
      [] p = "report"    -> 6
      [] OTHER           -> 7

\* C17: in every step of a run the phase stays or moves forward (a new run
\* begins only after the previous one ended); the table changes only in the
\* load phase, when no lookup is queued or in flight; the report is written
\* only in the report phase, which follows the commit of the load; a lookup
\* is started only in the enrichment phase.
C17_PhasesForwardOnly ==
    [][ /\ \/ PhaseRank(pc') >= PhaseRank(pc)
           \/ pc \in {"done", "aborted"} /\ pc' = "extract"
        /\ locations' # locations =>
              /\ pc = "load"
              /\ Queued = {}
              /\ InFlight = {}
              /\ \A i \in 1..Len(task) : task[i].st = "done"
        /\ (report' # report /\ report' # <<>>) =>
              /\ pc = "report"
              /\ pc' = "done"
        /\ (\E i \in 1..Len(task') : task'[i].st = "running" /\ task[i].st # "running") =>
              /\ pc = "pool"
              /\ locations = locations0
      ]_vars

\* A complete run: two lookups, rows stored, the report written.
C17_Witness ==
    /\ pc = "done"
    /\ Len(task) = 2
    /\ locations # locations0
    /\ report # <<>>

\* C18 (as claimed): every coordinate enrich_with_api receives, and so every
\* coordinate a lookup is submitted for, has a lat and a lon that are
\* numbers: neither missing nor NaN.
C18_Original ==
    /\ \A i \in 1..Len(coords) :
          /\ coords[i].lat \notin {NA, NaN}
          /\ coords[i].lon \notin {NA, NaN}
    /\ pc = "enrich" =>
          \A i \in 1..Len(df_clean) :
              /\ df_clean[i].lat \notin {NA, NaN}
              /\ df_clean[i].lon \notin {NA, NaN}

\* Positions of the batch that hold a storable coordinate for the first time
\* in the batch, the coordinate not being stored when the run started.
FirstPositions ==
    { i \in 1..Len(df_enriched) :
        /\ df_enriched[i].lat # NaN
        /\ df_enriched[i].lon # NaN
        /\ ~Conflicts(locations0, df_enriched[i])
        /\ \A j \in 1..(i - 1) : ~SameCoordinate(df_enriched[j], df_enriched[i]) }

\* C19: after the load, for every coordinate of the batch that was not yet
\* stored, the one row stored for it carries the postcode of the earliest
\* position of the batch that holds the coordinate, whatever the later
\* positions got and whatever the order in which the lookups completed.
C19_EarliestPositionPersisted ==
    LoadReturned =>
        \A i \in FirstPositions :
            \A k \in 1..Len(locations) :
                SameCoordinate(locations[k], df_enriched[i]) =>
                    locations[k].nearest_postcode = LookupValue(i)

\* One new coordinate at both positions of the batch, the first lookup timed
\* out and the second succeeded: the row stored has no postcode.
C19_Witness ==
    /\ LoadReturned
    /\ Len(df_enriched) = 2
    /\ SameCoordinate(df_enriched[1], df_enriched[2])
    /\ 1 \in FirstPositions
    /\ task[1].resp.kind = "timeout"
    /\ task[2].resp.kind = "found"
    /\ \E k \in 1..Len(locations) :
          /\ SameCoordinate(locations[k], df_enriched[1])
          /\ locations[k].nearest_postcode = None

=============================================================================
